---- MODULE Spec2Model ----
(***************************************************************************)
(* Model of kotaemon/rerankings/ollama.py: OllamaReranking.                *)
(*                                                                         *)
(* run(query, documents) scores every document with one blocking HTTP      *)
(* chat-completion call (_score_relevance), attaches the score to a new    *)
(* Document and sorts the (score, document) pairs by descending score.     *)
(*                                                                         *)
(* Strings are sequences of one-character strings.  A Python float is a    *)
(* record [cls, v]: cls is "fin", "nan", "inf" or "ninf" and, for a finite *)
(* float, v is the value multiplied by Scale.  Every decimal the model     *)
(* parses has at most MaxReplyLen digits, so the scaled value is exact and *)
(* the order of the scaled integers is the order of the doubles.           *)
(***************************************************************************)
EXTENDS Integers, Sequences, FiniteSets

VARIABLES
    query,        \* argument of run
    documents,    \* argument of run: sequence of [text, metadata]
    max_tokens,   \* self.max_tokens: <<>> is None, <<n>> is the integer n
    pc,           \* position of run: "loop", "wait" (blocked in session.post), "done"
    scored_docs,  \* local list of run: [score, doc, pos]; pos is the input index (history)
    requests,     \* chat-completion requests issued so far, in order
    outcomes,     \* outcome of every completed request, in order
    numbers,      \* re.findall(...) of the last reply parsed on the pattern path
    result        \* value returned by run (meaningful when pc = "done")

vars == <<query, documents, max_tokens, pc, scored_docs, requests, outcomes,
          numbers, result>>

----------------------------------------------------------------------------
(* Bounds *)

MaxDocs == 3

MaxReplyLen == 3

----------------------------------------------------------------------------
(* Helpers on sequences *)

Reverse(s) == [k \in 1..Len(s) |-> s[Len(s) + 1 - k]]

RECURSIVE SeqsOfLen(_, _)
SeqsOfLen(S, n) ==
    IF n = 0 THEN {<<>>}
    ELSE {Append(s, x) : s \in SeqsOfLen(S, n - 1), x \in S}

SeqsUpTo(S, n) == UNION {SeqsOfLen(S, k) : k \in 0..n}

RECURSIVE Pow10(_)
Pow10(n) == IF n = 0 THEN 1 ELSE 10 * Pow10(n - 1)

----------------------------------------------------------------------------
(* Python floats *)

Scale == Pow10(MaxReplyLen)

Fin(v) == [cls |-> "fin", v |-> v]
NaN == [cls |-> "nan", v |-> 0]
PInf == [cls |-> "inf", v |-> 0]
NInf == [cls |-> "ninf", v |-> 0]

Zero == Fin(0)
One == Fin(Scale)
DefaultScore == Fin(Scale \div 2)

\* a < b on floats: false whenever an operand is NaN
FLt(a, b) ==
    IF a.cls = "nan" \/ b.cls = "nan" THEN FALSE
    ELSE IF a.cls = "ninf" THEN b.cls # "ninf"
    ELSE IF a.cls = "inf" THEN FALSE
    ELSE IF b.cls = "ninf" THEN FALSE
    ELSE IF b.cls = "inf" THEN TRUE
    ELSE a.v < b.v

\* builtin min(a, b): a unless b < a
PyMin(a, b) == IF FLt(b, a) THEN b ELSE a

\* builtin max(a, b): a unless b > a
PyMax(a, b) == IF FLt(a, b) THEN b ELSE a

ClampLoose(score) == PyMax(PyMin(score, One), Zero)

\* max(0.0, min(1.0, score))
Clamp(score) == PyMax(Zero, PyMin(One, score))

----------------------------------------------------------------------------
(* Characters and replies *)

Digits == {"0", "1", "5"}

DigitVal(c) == IF c = "0" THEN 0 ELSE IF c = "1" THEN 1 ELSE 5

Whitespace == {" "}

Alphabet == Digits \cup {".", "-", "x", " "}

IsDigitAt(s, p) == p >= 1 /\ p <= Len(s) /\ s[p] \in Digits

IsCharAt(s, p, c) == p >= 1 /\ p <= Len(s) /\ s[p] = c

\* number of consecutive digits of s starting at position p
RECURSIVE DigitRun(_, _)
DigitRun(s, p) == IF IsDigitAt(s, p) THEN 1 + DigitRun(s, p + 1) ELSE 0

\* str.strip()
RECURSIVE LStrip(_)
LStrip(s) ==
    IF s # <<>> /\ s[1] \in Whitespace THEN LStrip(Tail(s)) ELSE s

Strip(s) == Reverse(LStrip(Reverse(LStrip(s))))

\* value of a run of digits read as a decimal integer
RECURSIVE DigitsValue(_)
DigitsValue(s) ==
    IF s = <<>> THEN 0
    ELSE 10 * DigitsValue(SubSeq(s, 1, Len(s) - 1)) + DigitVal(s[Len(s)])

NanText == <<"n", "a", "n">>
InfText == <<"i", "n", "f">>

\* float(s) for a string without surrounding whitespace:
\* [ok |-> FALSE] is ValueError, otherwise [ok |-> TRUE, val |-> the float]
PyFloat(s) ==
    LET neg  == IsCharAt(s, 1, "-")
        body == IF neg THEN Tail(s) ELSE s
        ip   == DigitRun(body, 1)
        dot  == IsCharAt(body, ip + 1, ".")
        fp   == IF dot THEN DigitRun(body, ip + 2) ELSE 0
        used == ip + (IF dot THEN 1 + fp ELSE 0)
        mag  == DigitsValue(SubSeq(body, 1, ip)) * Scale
                  + (DigitsValue(SubSeq(body, ip + 2, ip + 1 + fp)) * Scale)
                      \div Pow10(fp)
    IN  IF body = NanText THEN [ok |-> TRUE, val |-> NaN]
        ELSE IF body = InfText
            THEN [ok |-> TRUE, val |-> IF neg THEN NInf ELSE PInf]
        ELSE IF ip + fp >= 1 /\ used = Len(body)
            THEN [ok |-> TRUE, val |-> Fin(IF neg THEN 0 - mag ELSE mag)]
        ELSE [ok |-> FALSE, val |-> NaN]

----------------------------------------------------------------------------
(* re.findall(r'0?\.\d+|[01]\.?\d*', content) *)

\* length of the match of the pattern that starts at position p, 0 if none
MatchAt(s, p) ==
    IF IsCharAt(s, p, "0") /\ IsCharAt(s, p + 1, ".") /\ IsDigitAt(s, p + 2)
        THEN 2 + DigitRun(s, p + 2)
    ELSE IF IsCharAt(s, p, ".") /\ IsDigitAt(s, p + 1)
        THEN 1 + DigitRun(s, p + 1)
    ELSE IF IsCharAt(s, p, "0") \/ IsCharAt(s, p, "1")
        THEN IF IsCharAt(s, p + 1, ".")
                THEN 2 + DigitRun(s, p + 2)
                ELSE 1 + DigitRun(s, p + 1)
    ELSE 0

RECURSIVE FindAllFrom(_, _)
FindAllFrom(s, p) ==
    IF p > Len(s) THEN <<>>
    ELSE LET n == MatchAt(s, p)
         IN  IF n = 0 THEN FindAllFrom(s, p + 1)
             ELSE <<SubSeq(s, p, p + n - 1)>> \o FindAllFrom(s, p + n)

FindAll(s) == FindAllFrom(s, 1)

----------------------------------------------------------------------------
(* Outcomes of one chat-completion call *)

\* ways the call fails before a reply text is available: session.post raises
\* (connection error, timeout), raise_for_status raises, response.json()
\* raises, result["choices"][0]["message"]["content"] raises
FailureKinds == {"transport", "http_status", "bad_json", "missing_field"}

Failures == {[kind |-> f, content |-> <<>>] : f \in FailureKinds}

Reply(c) == [kind |-> "ok", content |-> c]

\* replies whose float() value is not finite
SpecialReplies == {NanText, InfText, <<"-">> \o InfText}

AllReplies == SeqsUpTo(Alphabet, MaxReplyLen) \cup SpecialReplies

AllOutcomes == Failures \cup {Reply(c) : c \in AllReplies}

RunReplies == {<<"1">>, <<"0">>, <<"x">>}

RunOutcomes == Failures \cup {Reply(c) : c \in RunReplies}

----------------------------------------------------------------------------
(* OllamaReranking *)

None == <<>>

\* _truncate_text: "self.max_tokens and len(text) > self.max_tokens" is false
\* for None and for 0
TruncateText(mt, text) ==
    IF mt # None /\ mt[1] # 0 /\ Len(text) > mt[1]
        THEN SubSeq(text, 1, mt[1])
        ELSE text

\* the numbers local of _score_relevance: the findall result when float(content)
\* raised ValueError, empty when that line is not reached
NumbersOf(o) ==
    IF o.kind = "ok" /\ ~PyFloat(Strip(o.content)).ok
        THEN FindAll(Strip(o.content))
        ELSE <<>>

ScoreRelevanceZeroOnError(o) ==
    IF o.kind # "ok" THEN Zero
    ELSE LET content == Strip(o.content)
             direct  == PyFloat(content)
             nums    == FindAll(content)
         IN  IF direct.ok THEN Clamp(direct.val)
             ELSE IF nums # <<>> /\ PyFloat(nums[1]).ok
                 THEN Clamp(PyFloat(nums[1]).val)
             ELSE DefaultScore

\* _score_relevance, as a function of the outcome of its HTTP call
ScoreRelevance(o) ==
    IF o.kind # "ok" THEN DefaultScore
    ELSE LET content == Strip(o.content)
             direct  == PyFloat(content)
             nums    == FindAll(content)
         IN  IF direct.ok THEN Clamp(direct.val)
             ELSE IF nums # <<>>
                 THEN IF PyFloat(nums[1]).ok
                         THEN Clamp(PyFloat(nums[1]).val)
                         ELSE DefaultScore
             ELSE DefaultScore

\* the prompt of the request: the query and the (truncated) document text
BuildRequest(q, doc_text, pos) ==
    [query |-> q, document |-> doc_text, pos |-> pos]

MergeMetaKeepOld(meta, score) ==
    [k \in DOMAIN meta \cup {"rerank_score"} |->
        IF k \in DOMAIN meta THEN meta[k] ELSE score]

\* {**(doc.metadata or {}), "rerank_score": score}
MergeMeta(meta, score) ==
    [k \in DOMAIN meta \cup {"rerank_score"} |->
        IF k = "rerank_score" THEN score ELSE meta[k]]

ScoredDocOfTruncated(doc, doc_text, score) ==
    [text |-> doc_text, metadata |-> MergeMeta(doc.metadata, score)]

\* Document(text=doc.text, metadata={...})
ScoredDoc(doc, doc_text, score) ==
    [text |-> doc.text, metadata |-> MergeMeta(doc.metadata, score)]

\* stable ascending insertion by the key x[0], using only <
RECURSIVE InsertByScore(_, _)
InsertByScore(s, x) ==
    IF s = <<>> THEN <<x>>
    ELSE IF FLt(x.score, s[Len(s)].score)
        THEN Append(InsertByScore(SubSeq(s, 1, Len(s) - 1), x), s[Len(s)])
    ELSE Append(s, x)

RECURSIVE SortAscending(_)
SortAscending(s) ==
    IF s = <<>> THEN <<>>
    ELSE InsertByScore(SortAscending(SubSeq(s, 1, Len(s) - 1)), s[Len(s)])

SortWithoutReverse(s) == SortAscending(s)

SortThenReverse(s) == Reverse(SortAscending(s))

\* list.sort(key=lambda x: x[0], reverse=True): the list is reversed, sorted
\* stably in ascending order and reversed again
SortDescending(s) == Reverse(SortAscending(Reverse(s)))

----------------------------------------------------------------------------
(* Inputs *)

Queries == {<<"q">>}

TextSet == {<<"a">>, <<"a", "b">>}

OldScore == Fin(Scale \div 4)

PageValue == Fin(2 * Scale)

EmptyMeta == [k \in {} |-> Zero]

FullMeta ==
    [k \in {"page", "rerank_score"} |->
        IF k = "page" THEN PageValue ELSE OldScore]

MetaSet == {EmptyMeta, FullMeta}

DocSet == [text : TextSet, metadata : MetaSet]

\* the documents of a run of several documents
RunDocSet ==
    {[text |-> <<"a">>, metadata |-> EmptyMeta],
     [text |-> <<"a", "b">>, metadata |-> FullMeta]}

MaxTokensSet == {None, <<0>>, <<1>>}

----------------------------------------------------------------------------
(* run *)

InitWith(D, n) ==
    /\ query \in Queries
    /\ documents \in SeqsUpTo(D, n)
    /\ max_tokens \in MaxTokensSet
    /\ pc = "loop"
    /\ scored_docs = <<>>
    /\ requests = <<>>
    /\ outcomes = <<>>
    /\ numbers = <<>>
    /\ result = <<>>

Init == InitWith(RunDocSet, MaxDocs)

\* "if not documents: return documents"
RunEmpty ==
    /\ pc = "loop"
    /\ documents = <<>>
    /\ result' = documents
    /\ pc' = "done"
    /\ UNCHANGED <<query, documents, max_tokens, scored_docs, requests,
                   outcomes, numbers>>

\* one loop iteration up to the blocking session.post: truncate the text of
\* the next document and send the request
Post ==
    /\ pc = "loop"
    /\ Len(scored_docs) < Len(documents)
    /\ LET pos == Len(scored_docs) + 1
           doc_text == TruncateText(max_tokens, documents[pos].text)
       IN  requests' = Append(requests, BuildRequest(query, doc_text, pos))
    /\ pc' = "wait"
    /\ UNCHANGED <<query, documents, max_tokens, scored_docs, outcomes,
                   numbers, result>>

RespondRetry(o) ==
    /\ pc = "wait"
    /\ LET pos == Len(scored_docs) + 1
           doc == documents[pos]
           doc_text == TruncateText(max_tokens, doc.text)
           score == ScoreRelevance(o)
           scored == IF o.kind = "ok"
                        THEN Append(scored_docs,
                                [score |-> score,
                                 doc |-> ScoredDoc(doc, doc_text, score),
                                 pos |-> pos])
                        ELSE scored_docs
       IN  IF Len(scored) < Len(documents)
               THEN /\ scored_docs' = scored
                    /\ pc' = "loop"
                    /\ result' = result
               ELSE /\ scored_docs' = SortDescending(scored)
                    /\ pc' = "done"
                    /\ result' = [k \in 1..Len(scored) |->
                                    SortDescending(scored)[k].doc]
    /\ outcomes' = Append(outcomes, o)
    /\ numbers' = NumbersOf(o)
    /\ UNCHANGED <<query, documents, max_tokens, requests>>

\* the call completes with outcome o: the rest of the iteration, and after the
\* last document the sort and the return
Respond(o) ==
    /\ pc = "wait"
    /\ LET pos == Len(scored_docs) + 1
           doc == documents[pos]
           doc_text == TruncateText(max_tokens, doc.text)
           score == ScoreRelevance(o)
           scored == Append(scored_docs,
                        [score |-> score,
                         doc |-> ScoredDoc(doc, doc_text, score),
                         pos |-> pos])
       IN  IF Len(scored) < Len(documents)
               THEN /\ scored_docs' = scored
                    /\ pc' = "loop"
                    /\ result' = result
               ELSE /\ scored_docs' = SortDescending(scored)
                    /\ pc' = "done"
                    /\ result' = [k \in 1..Len(scored) |->
                                    SortDescending(scored)[k].doc]
    /\ outcomes' = Append(outcomes, o)
    /\ numbers' = NumbersOf(o)
    /\ UNCHANGED <<query, documents, max_tokens, requests>>

RespondRun == \E o \in RunOutcomes : Respond(o)

RespondAny == \E o \in AllOutcomes : Respond(o)

Next == RunEmpty \/ Post \/ RespondRun

Spec == Init /\ [][Next]_vars

\* a single scoring call with every reply of the alphabet
InitScore == InitWith(DocSet, 1)

NextScore == RunEmpty \/ Post \/ RespondAny

SpecScore == InitScore /\ [][NextScore]_vars

----------------------------------------------------------------------------
(* Properties *)

Half == Fin(Scale \div 2)

Done == pc = "done"

Failed(o) == o.kind # "ok"

ScoreOf(d) == d.metadata["rerank_score"]

\* a >= b on floats
FGe(a, b) == a.cls # "nan" /\ b.cls # "nan" /\ ~FLt(a, b)

InUnit(x) == x.cls = "fin" /\ x.v >= 0 /\ x.v <= Scale

Count(seq, t) == Cardinality({k \in 1..Len(seq) : seq[k].text = t})

\* C1: when run returns, the returned documents are ordered by non-increasing
\* rerank_score: for all positions i < j the score of result[i] is >= the
\* score of result[j].
C1_SortedDescending ==
    Done =>
        \A i, j \in 1..Len(result) :
            i < j => FGe(ScoreOf(result[i]), ScoreOf(result[j]))

\* a run of several documents whose order the sort changed
C1_Witness ==
    /\ Done
    /\ Len(result) >= 2
    /\ FLt(ScoreOf(result[2]), ScoreOf(result[1]))
    /\ scored_docs[1].pos > scored_docs[2].pos

\* C2: the returned sequence is a permutation of the input: same length and,
\* for every text, as many returned documents as input documents with it.
C2_Permutation ==
    Done =>
        /\ Len(result) = Len(documents)
        /\ \A t \in {documents[k].text : k \in 1..Len(documents)}
                    \cup {result[k].text : k \in 1..Len(result)} :
                Count(result, t) = Count(documents, t)

\* a run with two documents of the same text, a truncated prompt and a
\* changed order
C2_Witness ==
    /\ Done
    /\ Len(documents) >= 3
    /\ \E a, b \in 1..Len(documents) :
            a # b /\ documents[a].text = documents[b].text
    /\ \E k \in 1..Len(requests) :
            requests[k].document # documents[k].text
    /\ \E k \in 1..Len(scored_docs) : scored_docs[k].pos # k

\* C3: every score returned by _score_relevance and stored as rerank_score is
\* a finite number in [0.0, 1.0], whatever the outcome of the call (direct
\* parse, pattern match, no number, failure).
C3_ScoreInUnitInterval ==
    \A k \in 1..Len(scored_docs) :
        /\ InUnit(scored_docs[k].score)
        /\ InUnit(ScoreOf(scored_docs[k].doc))

\* the reply "nan" has been scored
C3_Witness ==
    /\ Done
    /\ outcomes = <<Reply(NanText)>>
    /\ scored_docs[1].score = One

\* C4: the sort is stable: of two documents with equal scores, the one that
\* came first in the input comes first in the output.
C4_StableOnTies ==
    Done =>
        \A i, j \in 1..Len(scored_docs) :
            (i < j /\ scored_docs[i].score = scored_docs[j].score)
                => scored_docs[i].pos < scored_docs[j].pos

\* two tied documents behind a better one that came between them
C4_Witness ==
    /\ Done
    /\ Len(scored_docs) = 3
    /\ scored_docs[1].pos = 2
    /\ scored_docs[2].pos = 1
    /\ scored_docs[3].pos = 3
    /\ scored_docs[2].score = scored_docs[3].score

\* the score each outcome of a run produces, written out
ExpectedRunScore(o) ==
    IF Failed(o) THEN Half
    ELSE IF o.content = <<"1">> THEN Fin(Scale)
    ELSE IF o.content = <<"0">> THEN Fin(0)
    ELSE Half

\* C5: a failed call gives its document the score 0.5 and nothing else
\* changes: every completed call has produced one scored document, the score
\* of every document is the one its own outcome produces, and a finished run
\* has processed and returned every document.
C5_FailuresIsolated ==
    /\ Len(scored_docs) = Len(outcomes)
    /\ \A k \in 1..Len(scored_docs) :
            /\ scored_docs[k].pos \in 1..Len(outcomes)
            /\ scored_docs[k].score
                  = ExpectedRunScore(outcomes[scored_docs[k].pos])
            /\ ScoreOf(scored_docs[k].doc) = scored_docs[k].score
    /\ Done =>
            /\ Len(outcomes) = Len(documents)
            /\ Len(result) = Len(documents)

\* a failure, then a reply, then another failure
C5_Witness ==
    /\ Done
    /\ Len(outcomes) = 3
    /\ outcomes[1].kind = "transport"
    /\ outcomes[2] = Reply(<<"1">>)
    /\ outcomes[3].kind = "bad_json"
    /\ scored_docs[1].pos = 2

\* C6: when every call of a run fails, every returned document has the score
\* 0.5 and the documents are returned in the input order.
C6_AllFailKeepsOrder ==
    (Done /\ \A k \in 1..Len(outcomes) : Failed(outcomes[k])) =>
        \A k \in 1..Len(result) :
            /\ ScoreOf(result[k]) = Half
            /\ result[k].text = documents[k].text
            /\ scored_docs[k].pos = k

\* three calls failed, on documents that are not all the same
C6_Witness ==
    /\ Done
    /\ Len(outcomes) = 3
    /\ \A k \in 1..3 : Failed(outcomes[k])
    /\ documents[1] # documents[2]
    /\ documents[2] # documents[3]

\* C7: the requests are issued one per document, in input order, each after
\* the previous one has completed and none twice; nothing is sorted or
\* returned before the last one has completed; a run on no documents issues
\* no request and returns its input.
C7_OneSequentialRequestPerDocument ==
    /\ Len(requests) - Len(outcomes) \in {0, 1}
    /\ (pc = "wait") = (Len(requests) = Len(outcomes) + 1)
    /\ Len(requests) <= Len(documents)
    /\ \A k \in 1..Len(requests) :
            /\ requests[k].pos = k
            /\ requests[k].query = query
    /\ ~Done =>
            /\ result = <<>>
            /\ \A k \in 1..Len(scored_docs) : scored_docs[k].pos = k
    /\ Done =>
            /\ Len(requests) = Len(documents)
            /\ Len(outcomes) = Len(documents)
    /\ (Done /\ documents = <<>>) => (requests = <<>> /\ result = documents)

\* a finished run of three requests of which the second failed
C7_Witness ==
    /\ Done
    /\ Len(requests) = 3
    /\ Failed(outcomes[2])
    /\ ~Failed(outcomes[1])
    /\ ~Failed(outcomes[3])

\* C8: with max_tokens an integer N >= 0, the prompt of a document longer than
\* N holds exactly its first N characters, the prompt of any other document
\* holds the whole text, and the returned document keeps the whole text.
C8_TruncatedToMaxTokens ==
    max_tokens # None =>
        /\ \A k \in 1..Len(requests) :
              LET text == documents[requests[k].pos].text
                  N == max_tokens[1]
              IN  /\ Len(text) > N =>
                        /\ Len(requests[k].document) = N
                        /\ requests[k].document = SubSeq(text, 1, N)
                  /\ Len(text) <= N => requests[k].document = text
        /\ \A k \in 1..Len(scored_docs) :
              scored_docs[k].doc.text = documents[scored_docs[k].pos].text

OutputMetadataMerged ==
    \A k \in 1..Len(scored_docs) :
        LET old == documents[scored_docs[k].pos].metadata
            new == scored_docs[k].doc.metadata
        IN  /\ DOMAIN new = DOMAIN old \cup {"rerank_score"}
            /\ new["rerank_score"] = scored_docs[k].score
            /\ \A key \in DOMAIN old \ {"rerank_score"} : new[key] = old[key]
            /\ Done => result[k] = scored_docs[k].doc

\* C9: no step of run changes the input documents, and the metadata of every
\* new document is the metadata of its input document with rerank_score set
\* to the document's score, every other key keeping its value.
C9_InputKeptMetadataMerged ==
    [][documents' = documents /\ OutputMetadataMerged']_vars

\* a document that came with a rerank_score and another key has been scored
C9_Witness ==
    /\ Done
    /\ Len(documents) >= 2
    /\ \E k \in 1..Len(scored_docs) :
          /\ documents[scored_docs[k].pos].metadata = FullMeta
          /\ ScoreOf(scored_docs[k].doc) # OldScore
          /\ scored_docs[k].doc.metadata["page"] = PageValue

\* the value of a string of one of the shapes 0.ddd, .ddd, 0, 1, 1.ddd is a
\* number from 0 up to, not including, 2
ValueOfRestrictedShape(m) ==
    /\ PyFloat(m).ok
    /\ PyFloat(m).val.cls = "fin"
    /\ PyFloat(m).val.v >= 0
    /\ PyFloat(m).val.v < 2 * Scale

\* C10: when the reply is not a float, the substring that is extracted and
\* parsed denotes, before clamping, a number of one of the shapes 0.ddd, .ddd,
\* 0, 1, 1.ddd, and a reply in which nothing is found gets the default 0.5.
C10_ExtractsRestrictedShape ==
    \A k \in 1..Len(outcomes) :
        LET o == outcomes[k]
            content == Strip(o.content)
        IN  (Done /\ ~Failed(o) /\ ~PyFloat(content).ok) =>
                /\ numbers # <<>> => ValueOfRestrictedShape(numbers[1])
                /\ numbers = <<>> => scored_docs[k].score = Half

====
